---- MODULE Spec2Model ----
(***************************************************************************)
(* A model of package filewatch (0xABAD/filewatch): Watch, its worker      *)
(* goroutine, the consumer of the returned channel, the owner of the done  *)
(* channel, and the file system the worker polls.                          *)
(*                                                                         *)
(* The file system is a small fixed tree of paths; every node carries the  *)
(* three things the code reads from an os.FileInfo: IsDir, ModTime, Size.  *)
(* The code compares the modification time of a path only with an earlier  *)
(* one of the same path, so an operation on a path may leave any time      *)
(* there: a later one, the same one (two changes within the resolution of  *)
(* the time stamps: README, Known Issues) or an earlier one (a clock set   *)
(* back, a file moved in).                                                 *)
(*                                                                         *)
(* Spec runs the program on trees of directories and plain files; LinkSpec *)
(* runs the same program on trees that may also hold a symbolic link,      *)
(* where os.Lstat (used by filepath.Walk) and os.Stat (used by the scan)   *)
(* differ.                                                                 *)
(***************************************************************************)
EXTENDS Integers, Sequences, FiniteSets, TLC

\* ---------------------------------------------------------------- bounds
MaxTime == 1   \* modification times range over 0..MaxTime
MaxSize == 1   \* file sizes range over 0..MaxSize
MaxOps  == 2   \* number of file-system operations in one run

\* ----------------------------------------------------------------- paths
\* The root "r", a sub-directory "r/s" of it, and a file "r/s/b" in that.
Root == "r"

Paths == {"r", "r/s", "r/s/b"}

\* The order in which filepath.Walk meets the paths: depth first, the names
\* of one directory in lexical order.
WalkOrder == <<"r", "r/s", "r/s/b">>

Parent == [p \in Paths |->
             CASE p = "r"     -> "r"
               [] p = "r/s"   -> "r"
               [] p = "r/s/b" -> "r/s"]

DirPaths == {"r", "r/s"}

\* the strict ancestors of p inside the tree
Ancestors(p) ==
  IF p = Root THEN {}
  ELSE IF Parent[p] = Root THEN {Root} ELSE {Parent[p], Root}

\* p is q or lies below q
Within(p, q) == p = q \/ q \in Ancestors(p)

\* ------------------------------------------------------------ file infos
\* What the code reads of an os.FileInfo.  kind "none" stands for a nil
\* FileInfo (and, in the file system, for a path that does not exist).  In the
\* file system a symbolic link has kind "link" while its target is there and
\* "dangling" while it is not; mtime and size are the link's own.
NoInfo == [kind |-> "none", mtime |-> 0, size |-> 0]

FileInfo(k, t, s) == [kind |-> k, mtime |-> t, size |-> s]

IsDir(i) == i.kind = "dir"

\* type Update struct
NewUpdate(p, prev, next, err, removed, added) ==
  [AbsPath |-> p, Prev |-> prev, Next |-> next, Error |-> err,
   WasRemoved |-> removed, WasAdded |-> added]

VARIABLES
  fs,         \* the file system: path -> info (kind "none": absent)
  locked,     \* directories without permission: listing them and stat-ing
              \* anything below them fails with a permission error
  nops,       \* file-system operations done so far
  pc,         \* where Watch / the worker goroutine stands
  recurse,    \* argument of Watch
  infos,      \* the tracked set: path -> stored info (kind "none": no entry)
  discovered, \* the slice built by the scan pass in progress
  todo,       \* keys the range over infos has still to produce
  upErr,      \* the values assigned to up.Error in this pass: dir -> error
  ticker,     \* the ticker: "unset", "running" (it fires every period, of
              \* whatever length), "stopped"
  done,       \* the done channel: "open", or "fired" (its owner has closed
              \* it or stands in a send on it: a receive is ready)
  closes,     \* number of close(updates) executed
  werr,       \* what Watch returned: "none" (not yet), "nil", or the error
  recvOk,     \* the consumer's last receive from updates: "none" (it has
              \* not received), "value" (a batch) or "closed" (the zero
              \* value of the closed channel)
  infos0,     \* the tracked set when the pass in progress started
  quiet,      \* no file-system operation since the pass started
  mirror      \* the set of paths a consumer holds that applies every Update
              \* of every batch it receives

vars == <<fs, locked, nops, pc, recurse, infos, discovered, todo, upErr, ticker, done, closes, werr,
          recvOk, infos0, quiet, mirror>>

fsVars     == <<fs, locked, nops>>
workerVars == <<pc, recurse, infos, discovered, todo, upErr,
                ticker, closes, werr, infos0>>
recvVars   == <<recvOk, mirror>>

NoInfos == [p \in Paths |-> NoInfo]

Tracked(m) == {p \in Paths : m[p].kind # "none"}

NoErrs == [p \in Paths |-> "nil"]

\* ------------------------------------------------------ os.Stat, os.Lstat
\* The error of os.Stat(p): "nil", "notexist" (os.IsNotExist holds of it) or
\* "perm" (any other failure: a directory above p cannot be searched).
\* os.Stat follows a symbolic link: it fails with not-exist when the target
\* of the link at p is missing.
StatErr(p) ==
  IF \E a \in Ancestors(p) : a \in locked THEN "perm"
  ELSE IF fs[p].kind \in {"none", "dangling"} THEN "notexist"
  ELSE "nil"

\* What a symbolic link of the model points to: a file outside the watched
\* tree, empty and made at time 0 (a link's own size, the length of the name
\* it holds, is at least 1).
TargetInfo == [kind |-> "file", mtime |-> 0, size |-> 0]

\* The FileInfo of os.Stat(p), for a link that of its target; nil when the
\* stat fails.
StatInfo(p) ==
  IF StatErr(p) # "nil" THEN NoInfo
  ELSE IF fs[p].kind = "link" THEN TargetInfo
  ELSE fs[p]

\* os.Lstat, which filepath.Walk uses: it does not follow a link.
LstatErr(p) ==
  IF \E a \in Ancestors(p) : a \in locked THEN "perm"
  ELSE IF fs[p].kind = "none" THEN "notexist"
  ELSE "nil"

\* The FileInfo of os.Lstat(p): for a link, that of the link itself.
LstatInfo(p) ==
  IF LstatErr(p) # "nil" THEN NoInfo
  ELSE IF fs[p].kind = "dangling" THEN [fs[p] EXCEPT !.kind = "link"]
  ELSE fs[p]

\* The error of reading the names of directory d (readDirNames in Walk).
ReadDirErr(d) == IF d \in locked THEN "perm" ELSE "nil"

\* --------------------------------------------------------- filepath.Walk
\* The callback of the initial walk.  st is [infos, disc]; the result is the
\* new st and what the callback returns: "nil", "SkipDir" or an error.
InitialWalkFn(st, rec, p, info, e) ==
  IF e # "nil" THEN [st |-> st, ret |-> e]
  ELSE [st  |-> [st EXCEPT !.infos[p] = info],
        ret |-> IF IsDir(info) /\ ~rec /\ p # Root THEN "SkipDir" ELSE "nil"]

\* DiscoveryWalkFn with the WasAdded of the new Update left out.
DiscoveryWalkFn_NoFlag(st, rec, p, i, e) ==
  IF e # "nil" THEN [st |-> st, ret |-> e]
  ELSE IF st.infos[p].kind = "none"
  THEN [st  |-> [infos |-> [st.infos EXCEPT ![p] = i],
                 disc  |-> Append(st.disc,
                             NewUpdate(p, i, NoInfo, "nil", FALSE, FALSE))],
        ret |-> IF IsDir(i) /\ ~rec THEN "SkipDir" ELSE "nil"]
  ELSE [st |-> st, ret |-> "nil"]

\* DiscoveryWalkFn without the test infos[p] == nil.
DiscoveryWalkFn_NoNilCheck(st, rec, p, i, e) ==
  IF e # "nil" THEN [st |-> st, ret |-> e]
  ELSE [st  |-> [infos |-> [st.infos EXCEPT ![p] = i],
                 disc  |-> Append(st.disc,
                             NewUpdate(p, i, NoInfo, "nil", FALSE, TRUE))],
        ret |-> IF IsDir(i) /\ ~rec THEN "SkipDir" ELSE "nil"]

\* The callback of the discovery walk of a changed directory.
DiscoveryWalkFn(st, rec, p, i, e) ==
  IF e # "nil" THEN [st |-> st, ret |-> e]
  ELSE IF st.infos[p].kind = "none"
  THEN [st  |-> [infos |-> [st.infos EXCEPT ![p] = i],
                 disc  |-> Append(st.disc,
                             NewUpdate(p, i, NoInfo, "nil", FALSE, TRUE))],
        ret |-> IF IsDir(i) /\ ~rec THEN "SkipDir" ELSE "nil"]
  ELSE [st |-> st, ret |-> "nil"]

WalkFn(mode, st, rec, p, info, e) ==
  IF mode = "initial" THEN InitialWalkFn(st, rec, p, info, e)
  ELSE DiscoveryWalkFn(st, rec, p, info, e)

\* filepath.walk over the paths below w, from position k of WalkOrder on.
\* entered: the directories whose names are being walked.  A path is met
\* when its directory was entered and it exists.  For a directory the names
\* are read first and the callback gets the error of that read; the
\* directory is entered when both the read and the callback succeed.  Any
\* error the callback returns other than SkipDir ends the walk.
RECURSIVE WalkRec(_, _, _, _, _, _)
WalkRec(mode, rec, w, k, st, entered) ==
  IF k > Len(WalkOrder) THEN [st |-> st, err |-> "nil"]
  ELSE
    LET p == WalkOrder[k] IN
    IF ~(p # w /\ Within(p, w) /\ Parent[p] \in entered /\ fs[p].kind # "none")
    THEN WalkRec(mode, rec, w, k + 1, st, entered)
    ELSE IF LstatErr(p) # "nil"
    THEN LET r == WalkFn(mode, st, rec, p, NoInfo, LstatErr(p)) IN
         IF r.ret \in {"nil", "SkipDir"}
         THEN WalkRec(mode, rec, w, k + 1, r.st, entered)
         ELSE [st |-> r.st, err |-> r.ret]
    ELSE IF ~IsDir(fs[p])
    THEN LET r == WalkFn(mode, st, rec, p, LstatInfo(p), "nil") IN
         IF r.ret = "nil"
         THEN WalkRec(mode, rec, w, k + 1, r.st, entered)
         ELSE [st |-> r.st, err |-> r.ret]
    ELSE LET r == WalkFn(mode, st, rec, p, LstatInfo(p), ReadDirErr(p)) IN
         IF r.ret \notin {"nil", "SkipDir"}
         THEN [st |-> r.st, err |-> r.ret]
         ELSE WalkRec(mode, rec, w, k + 1, r.st,
                      IF r.ret = "nil" /\ ReadDirErr(p) = "nil"
                      THEN entered \cup {p} ELSE entered)

\* filepath.Walk(w, fn): Lstat of w first; a failure goes to the callback.
\* SkipDir from the top is no error.  The result is [st, err].
Walk(mode, rec, w, st) ==
  IF LstatErr(w) # "nil"
  THEN LET r == WalkFn(mode, st, rec, w, NoInfo, LstatErr(w)) IN
       [st |-> r.st, err |-> IF r.ret = "SkipDir" THEN "nil" ELSE r.ret]
  ELSE IF ~IsDir(fs[w])
  THEN LET r == WalkFn(mode, st, rec, w, LstatInfo(w), "nil") IN
       [st |-> r.st, err |-> IF r.ret = "SkipDir" THEN "nil" ELSE r.ret]
  ELSE LET r == WalkFn(mode, st, rec, w, LstatInfo(w), ReadDirErr(w)) IN
       IF r.ret # "nil" \/ ReadDirErr(w) # "nil"
       THEN [st |-> r.st, err |-> IF r.ret = "SkipDir" THEN "nil" ELSE r.ret]
       ELSE WalkRec(mode, rec, w, 1, r.st, {w})

\* ----------------------------------------------------- the file system
\* The whole tree, every node made at time 0 and empty.
TreeFS == [p \in Paths |->
             FileInfo(IF p \in DirPaths THEN "dir" ELSE "file", 0, 0)]

\* The two directories, nothing in the sub-directory.
DirsFS == [TreeFS EXCEPT !["r/s/b"] = NoInfo]

\* The root is a plain file.
FileFS == [p \in Paths |-> IF p = Root THEN FileInfo("file", 0, 0) ELSE NoInfo]

\* The file systems with a symbolic link, made at time 0: the tree with a
\* link in the place of the file, or a link as the root; the target of the
\* link there or missing.
LinkFSs ==
  {[TreeFS EXCEPT !["r/s/b"] = FileInfo(k, 0, sz)] :
     k \in {"link", "dangling"}, sz \in 1..MaxSize}
  \cup {[p \in Paths |-> IF p = Root THEN FileInfo(k, 0, sz) ELSE NoInfo] :
          k \in {"link", "dangling"}, sz \in 1..MaxSize}

\* the file system with the modification time of p's directory set to t
TouchParent(f, p, t) ==
  IF p = Root THEN f ELSE [f EXCEPT ![Parent[p]].mtime = t]

\* What every file-system operation does besides its own effect.
\* Operations after Watch has failed or the worker has returned are seen by
\* nobody and are left out.
FsStep ==
  /\ nops < MaxOps
  /\ pc \notin {"failed", "done"}
  /\ nops' = nops + 1
  /\ quiet' = (quiet /\ pc \notin {"scan", "sendBatch"})
  /\ UNCHANGED <<workerVars, recvVars, done>>

\* os.Create of a file that does not exist, in a directory that does.
CreateFile(p, t) ==
  /\ p \notin DirPaths
  /\ fs[p].kind = "none"
  /\ fs[Parent[p]].kind = "dir"
  /\ fs' = TouchParent([fs EXCEPT ![p] = FileInfo("file", t, 0)], p, t)
  /\ UNCHANGED locked
  /\ FsStep

\* os.Mkdir of a directory that does not exist.
Mkdir(p, t) ==
  /\ p \in DirPaths
  /\ fs[p].kind = "none"
  /\ p # Root => fs[Parent[p]].kind = "dir"
  /\ fs' = TouchParent([fs EXCEPT ![p] = FileInfo("dir", t, 0)], p, t)
  /\ UNCHANGED locked
  /\ FsStep

\* A write to (or truncation of) an existing file: the size becomes sz.
WriteFile(p, sz, t) ==
  /\ fs[p].kind = "file"
  /\ fs' = [fs EXCEPT ![p] = FileInfo("file", t, sz)]
  /\ UNCHANGED locked
  /\ FsStep

\* os.Remove of a file, os.RemoveAll of a directory with all below it.
Remove(p, t) ==
  /\ fs[p].kind # "none"
  /\ fs' = TouchParent([q \in Paths |-> IF Within(q, p) THEN NoInfo ELSE fs[q]],
                       p, t)
  /\ locked' = {d \in locked : ~Within(d, p)}
  /\ FsStep

\* os.Chtimes of an existing directory: its modification time becomes t.
Touch(d, t) ==
  /\ fs[d].kind = "dir"
  /\ fs' = [fs EXCEPT ![d].mtime = t]
  /\ UNCHANGED locked
  /\ FsStep

\* The target of the symbolic link at p is removed, or made again as it was;
\* the link itself is not touched.
Retarget(p) ==
  /\ fs[p].kind \in {"link", "dangling"}
  /\ fs' = [fs EXCEPT ![p].kind = IF @ = "link" THEN "dangling" ELSE "link"]
  /\ UNCHANGED locked
  /\ FsStep

\* chmod of an existing directory: permission taken away or given back.
Chmod(d) ==
  /\ fs[d].kind = "dir"
  /\ locked' = IF d \in locked THEN locked \ {d} ELSE locked \cup {d}
  /\ UNCHANGED fs
  /\ FsStep

\* ------------------------------------------------------------------ Watch
\* The orders in which a range over a map with the keys S can produce them.
RangeOrders(S) ==
  {o \in [1..Cardinality(S) -> S] : \A i, j \in DOMAIN o : i # j => o[i] # o[j]}

\* InitialBatch without the idx++: every Update lands in initial[0] and the
\* rest of the slice keeps its zero values.
InitialBatch_NoIdx(m, order) ==
  [i \in 1..Len(order) |->
     IF i = 1
     THEN NewUpdate(order[Len(order)], m[order[Len(order)]], NoInfo, "nil",
                    FALSE, TRUE)
     ELSE NewUpdate("", NoInfo, NoInfo, "nil", FALSE, FALSE)]

\* The slice the worker builds from infos before its first send.
InitialBatch(m, order) ==
  [i \in 1..Len(order) |->
     NewUpdate(order[i], m[order[i]], NoInfo, "nil", FALSE, TRUE)]

\* The values an *interval argument is tried with: nil (isNil) or a pointer
\* to the duration d.
Intervals == {[isNil |-> TRUE, d |-> 0]}
             \cup {[isNil |-> FALSE, d |-> x] : x \in -1..1}

\* BadInterval with < for <=.
BadInterval_Negative(interval) == ~interval.isNil /\ interval.d < 0

\* if interval != nil { if *interval <= 0 { return nil, error } }
BadInterval(interval) == ~interval.isNil /\ interval.d <= 0

\* Watch(done, path, recurse, interval).  absFails: filepath.Abs fails.
\* It returns an error (pc "failed") or starts the worker (pc "sendInit").
Watch(absFails, rec, interval) ==
  /\ pc = "init"
  /\ LET w == Walk("initial", rec, Root, [infos |-> NoInfos, disc |-> <<>>])
         e == IF absFails THEN "abs"
              ELSE IF BadInterval(interval) THEN "interval"
              ELSE w.err
     IN
     /\ werr' = e
     /\ IF e # "nil"
        THEN /\ pc' = "failed"
             /\ UNCHANGED <<recurse, infos>>
        ELSE /\ pc' = "sendInit"
             /\ recurse' = rec
             /\ infos' = w.st.infos
  /\ UNCHANGED <<fsVars, recvVars, discovered, todo, upErr, ticker, done,
                 closes, infos0, quiet>>

\* What a consumer that goes through a batch in slice order makes of the set
\* S of paths it holds, from Update k on: a path is put in on WasAdded and
\* taken out on WasRemoved with a not-exist Error.
RECURSIVE ApplyUpdates(_, _, _)
ApplyUpdates(batch, k, S) ==
  IF k > Len(batch) THEN S
  ELSE LET u == batch[k] IN
       ApplyUpdates(batch, k + 1,
                    IF u.WasAdded THEN S \cup {u.AbsPath}
                    ELSE IF u.WasRemoved /\ u.Error = "notexist"
                    THEN S \ {u.AbsPath}
                    ELSE S)

\* The consumer's side of a send on updates: u := <-updates takes batch.
Receive(batch) ==
  /\ recvOk' = "value"
  /\ mirror' = ApplyUpdates(batch, 1, mirror)

\* The values the slice initial can have when the worker sends it: one for
\* each order the range over infos can take.
InitialBatches ==
  {InitialBatch(infos, o) : o \in RangeOrders(Tracked(infos))}

\* SendInitial without the start of the ticker.
SendInitial_NoTicker ==
  /\ pc = "sendInit"
  /\ \E b \in InitialBatches : Receive(b)
  /\ pc' = "select"
  /\ UNCHANGED <<fsVars, recurse, infos, discovered, todo, upErr, ticker,
                 done, closes, werr, infos0, quiet>>

\* The worker builds initial and sends it: updates <- initial, taken by the
\* consumer; then time.NewTicker(tick).
SendInitial ==
  /\ pc = "sendInit"
  /\ \E b \in InitialBatches : Receive(b)
  /\ ticker' = "running"
  /\ pc' = "select"
  /\ UNCHANGED <<fsVars, recurse, infos, discovered, todo, upErr,
                 done, closes, werr, infos0, quiet>>

\* case <-ticker.C: the ticker has fired; a scan pass starts and the range
\* over infos begins.
SelectTick ==
  /\ pc = "select"
  /\ ticker = "running"
  /\ pc' = "scan"
  /\ discovered' = <<>>
  /\ todo' = Tracked(infos)
  /\ upErr' = NoErrs
  /\ infos0' = infos
  /\ quiet' = TRUE
  /\ UNCHANGED <<fsVars, recvVars, recurse, infos, ticker,
                 done, closes, werr>>

\* Changed with !After for Before.
Changed_NotAfter(prev, next) ==
  prev.mtime <= next.mtime \/ prev.size # next.size

\* Changed without the comparison of the modification times.
Changed_SizeOnly(prev, next) == prev.size # next.size

\* prev.ModTime().Before(next.ModTime()) || prev.Size() != next.Size()
Changed(prev, next) == prev.mtime < next.mtime \/ prev.size # next.size

\* AfterStatError without the delete.
AfterStatError_NoDelete(m, p, err) == m

\* AfterStatError with the delete for every error.
AfterStatError_DeleteAlways(m, p, err) == [m EXCEPT ![p] = NoInfo]

\* infos after os.Stat(p) failed with err:
\* if os.IsNotExist(err) { delete(infos, path) }
AfterStatError(m, p, err) ==
  IF err = "notexist" THEN [m EXCEPT ![p] = NoInfo] ELSE m

\* RemovedUpdate with the WasRemoved left out.
RemovedUpdate_NoFlag(p, prev, err) ==
  NewUpdate(p, prev, NoInfo, err, FALSE, FALSE)

\* RemovedUpdate with the Error left out.
RemovedUpdate_NoError(p, prev, err) ==
  NewUpdate(p, prev, NoInfo, "nil", TRUE, FALSE)

\* The Update appended for a path whose os.Stat failed with err.
RemovedUpdate(p, prev, err) == NewUpdate(p, prev, NoInfo, err, TRUE, FALSE)

\* ChangedUpdate with the Next left out.
ChangedUpdate_NoNext(p, prev, next, walkErr) ==
  NewUpdate(p, prev, NoInfo, "nil", FALSE, FALSE)

\* The Update appended for a changed path: append(discovered, *up) copies up
\* before up.Error is assigned, so walkErr does not reach the slice.
ChangedUpdate(p, prev, next, walkErr) ==
  NewUpdate(p, prev, next, "nil", FALSE, FALSE)

\* One iteration of `for path, prev := range infos` for the key p.  Keys the
\* discovery walk adds to infos may or may not be produced later by the same
\* range (the choice of more).
ScanPath(p) ==
  /\ pc = "scan"
  /\ p \in todo
  /\ LET prev == infos[p]
         err  == StatErr(p)
         next == StatInfo(p)
     IN
     IF err # "nil"
     THEN /\ infos' = AfterStatError(infos, p, err)
          /\ discovered' = Append(discovered, RemovedUpdate(p, prev, err))
          /\ todo' = todo \ {p}
          /\ UNCHANGED upErr
     ELSE IF Changed(prev, next)
     THEN IF IsDir(next)
          THEN LET pre == [infos |-> [infos EXCEPT ![p] = next], disc |-> <<>>]
                   w   == Walk("discovery", recurse, p, pre)
               IN
               /\ infos' = w.st.infos
               /\ discovered' = Append(discovered,
                                       ChangedUpdate(p, prev, next, w.err))
                                \o w.st.disc
               /\ upErr' = [upErr EXCEPT ![p] = w.err]
               /\ \E more \in SUBSET (Tracked(w.st.infos) \ Tracked(infos)) :
                    todo' = (todo \ {p}) \cup more
          ELSE /\ infos' = [infos EXCEPT ![p] = next]
               /\ discovered' = Append(discovered,
                                       ChangedUpdate(p, prev, next, "nil"))
               /\ todo' = todo \ {p}
               /\ UNCHANGED upErr
     ELSE /\ todo' = todo \ {p}
          /\ UNCHANGED <<infos, discovered, upErr>>
  /\ UNCHANGED <<fsVars, recvVars, pc, recurse, ticker,
                 done, closes, werr, infos0, quiet>>

\* The variables of a scan pass between two passes (in the code they are
\* locals of the tick case).
PassOver ==
  /\ discovered' = <<>>
  /\ todo' = {}
  /\ upErr' = NoErrs
  /\ infos0' = NoInfos
  /\ quiet' = TRUE

\* ScanEnd without the test of len(discovered).
ScanEnd_AlwaysSend ==
  /\ pc = "scan"
  /\ todo = {}
  /\ pc' = "sendBatch"
  /\ UNCHANGED <<discovered, todo, upErr, infos0, quiet>>
  /\ UNCHANGED <<fsVars, recvVars, recurse, infos, ticker, done, closes, werr>>

\* The range is over: if len(discovered) > 0 the worker goes to send, else
\* back to the select.
ScanEnd ==
  /\ pc = "scan"
  /\ todo = {}
  /\ IF Len(discovered) > 0
     THEN /\ pc' = "sendBatch"
          /\ UNCHANGED <<discovered, todo, upErr, infos0, quiet>>
     ELSE /\ pc' = "select"
          /\ PassOver
  /\ UNCHANGED <<fsVars, recvVars, recurse, infos, ticker, done, closes, werr>>

\* updates <- discovered, taken by the consumer; back to the select.
SendBatch ==
  /\ pc = "sendBatch"
  /\ Receive(discovered)
  /\ pc' = "select"
  /\ PassOver
  /\ UNCHANGED <<fsVars, recurse, infos, ticker, done, closes, werr>>

\* SelectDone without the deferred close(updates).
SelectDone_NoClose ==
  /\ pc = "select"
  /\ done = "fired"
  /\ pc' = "done"
  /\ ticker' = "stopped"
  /\ UNCHANGED <<fsVars, recvVars, recurse, infos, discovered, todo, upErr,
                 done, closes, werr, infos0, quiet>>

\* case <-done: return; the deferred close(updates) and ticker.Stop() run.
SelectDone ==
  /\ pc = "select"
  /\ done = "fired"
  /\ pc' = "done"
  /\ closes' = closes + 1
  /\ ticker' = "stopped"
  /\ UNCHANGED <<fsVars, recvVars, recurse, infos, discovered, todo, upErr,
                 done, werr, infos0, quiet>>

\* ------------------------------------------- the owner of done, the consumer
\* close(done), or done <- struct{}{} (whose sender then waits for the
\* worker): from now on a receive from done is ready.
Cancel ==
  /\ done = "open"
  /\ done' = "fired"
  /\ UNCHANGED <<fsVars, workerVars, recvVars, quiet>>

\* A receive from the closed channel: the zero value, a nil slice.
RecvClosed ==
  /\ closes > 0
  /\ recvOk # "closed"
  /\ recvOk' = "closed"
  /\ UNCHANGED <<fsVars, workerVars, done, quiet, mirror>>

\* ------------------------------------------------------------------- Spec
Init ==
  /\ fs \in {TreeFS, DirsFS, FileFS}
  /\ locked = {}
  /\ nops = 0
  /\ pc = "init"
  /\ recurse = FALSE
  /\ infos = NoInfos
  /\ discovered = <<>>
  /\ todo = {}
  /\ upErr = NoErrs
  /\ ticker = "unset"
  /\ done = "open"
  /\ closes = 0
  /\ werr = "none"
  /\ recvOk = "none"
  /\ infos0 = NoInfos
  /\ quiet = TRUE
  /\ mirror = {}

Next ==
  \/ \E absFails, rec \in BOOLEAN, interval \in Intervals :
       Watch(absFails, rec, interval)
  \/ SendInitial
  \/ SelectTick
  \/ \E p \in Paths : ScanPath(p)
  \/ ScanEnd
  \/ SendBatch
  \/ SelectDone
  \/ Cancel
  \/ RecvClosed
  \/ \E p \in Paths, t \in 0..MaxTime : CreateFile(p, t)
  \/ \E p \in Paths, t \in 0..MaxTime : Mkdir(p, t)
  \/ \E p \in Paths, t \in 0..MaxTime, sz \in 0..MaxSize : WriteFile(p, sz, t)
  \/ \E p \in Paths, t \in 0..MaxTime : Remove(p, t)
  \/ \E d \in Paths, t \in 0..MaxTime : Touch(d, t)
  \/ \E d \in Paths : Chmod(d)

Spec == Init /\ [][Next]_vars

\* The same program on file systems that may hold a symbolic link.
LinkInit ==
  /\ fs \in {TreeFS, DirsFS, FileFS} \cup LinkFSs
  /\ locked = {}
  /\ nops = 0
  /\ pc = "init"
  /\ recurse = FALSE
  /\ infos = NoInfos
  /\ discovered = <<>>
  /\ todo = {}
  /\ upErr = NoErrs
  /\ ticker = "unset"
  /\ done = "open"
  /\ closes = 0
  /\ werr = "none"
  /\ recvOk = "none"
  /\ infos0 = NoInfos
  /\ quiet = TRUE
  /\ mirror = {}

LinkNext ==
  \/ Next
  \/ \E p \in Paths : Retarget(p)

LinkSpec == LinkInit /\ [][LinkNext]_vars

\* The worker is never kept from a step of its own, and a select whose done
\* case is ready again and again takes it in the end (the Go select picks
\* among its ready cases at random).  Nothing is asked of the consumer, of the
\* owner of done or of the file system.
FairSpec ==
  /\ Spec
  /\ WF_vars(SelectTick)
  /\ WF_vars(\E p \in Paths : ScanPath(p))
  /\ WF_vars(ScanEnd)
  /\ SF_vars(SelectDone)

\* ======================================================================
\* The claims
\* ======================================================================
UpdatesFor(batch, p) == {i \in DOMAIN batch : batch[i].AbsPath = p}

\* A worker has been started and has not returned.
Working == pc \in {"sendInit", "select", "scan", "sendBatch"}

\* A scan pass has gone through the whole range and nothing has touched the
\* file system since it started.
QuietPassDone == pc = "scan" /\ todo = {} /\ quiet

\* C1: the first batch handed to the stream (nothing was received before it)
\* has exactly one Update for every path the initial walk recorded and none
\* for any other path, each with WasAdded set, WasRemoved unset, Prev the info
\* the walk recorded and Next nil -- in whatever order the range over infos
\* produced them.
C1_InitialBatch ==
  pc = "sendInit" =>
    /\ recvOk = "none"
    /\ \A b \in InitialBatches :
         /\ \A p \in Tracked(infos) : Cardinality(UpdatesFor(b, p)) = 1
         /\ \A i \in DOMAIN b :
              /\ b[i].AbsPath \in Tracked(infos)
              /\ b[i].WasAdded /\ ~b[i].WasRemoved
              /\ b[i].Prev = infos[b[i].AbsPath]
              /\ b[i].Next = NoInfo
              /\ b[i].Error = "nil"

\* C1 witness: the initial batch of a recursively watched tree of three paths
\* has been accepted.
C1_Witness ==
  /\ pc = "select" /\ recvOk = "value" /\ nops = 0
  /\ Tracked(infos) = Paths

\* What makes the initial walk report an error, read off the file system: the
\* root cannot be stat-ed, or a directory the walk reads cannot be listed.
InitialWalkFails ==
  \/ fs[Root].kind = "none"
  \/ \E d \in locked : fs[d].kind = "dir"

\* C2: a call of Watch whose path does not resolve, whose interval is given
\* and <= 0, or whose initial walk reports an error returns an error; and
\* after Watch has returned an error there is no tracked set, no ticker, no
\* close of the stream and no batch, ever.
C2_FailsSynchronously ==
  [][/\ \A a, r \in BOOLEAN, i \in Intervals :
          (Watch(a, r, i) /\ (a \/ (~i.isNil /\ i.d <= 0) \/ InitialWalkFails))
            => (pc' = "failed" /\ werr' \notin {"none", "nil"})
     /\ pc' = "failed" =>
          /\ infos' = NoInfos /\ ticker' = "unset" /\ closes' = 0
          /\ recvOk' = "none" /\ discovered' = <<>>
     /\ pc = "failed" => pc' = "failed"]_vars

\* C2 witness: Watch has failed on an interval of zero or less.
C2_Witness == pc = "failed" /\ werr = "interval"

\* A batch is handed to the consumer in this step.
Delivery == pc \in {"sendInit", "sendBatch"} /\ pc' = "select"

C4_CancelLeadsToClose ==
  (done = "fired" /\ Working) ~> (pc = "done" /\ closes = 1)

\* C5 as claimed: in a watch without recursion the file inside the
\* sub-directory is never tracked and no Update is made for it.
C5_NoUpdateBelowSubdir ==
  (Working /\ ~recurse) =>
    /\ "r/s/b" \notin Tracked(infos)
    /\ UpdatesFor(discovered, "r/s/b") = {}

\* C6 as claimed: the error a discovery walk returned for a changed directory
\* is the Error of that directory's Update in the slice of the pass.
C6_WalkErrorAttached ==
  \A d \in Paths :
    upErr[d] # "nil" =>
      \E i \in UpdatesFor(discovered, d) : discovered[i].Error = upErr[d]

\* The Updates a step of the pass has appended to discovered.
Appended(p) ==
  {i \in (Len(discovered) + 1)..Len(discovered') : discovered'[i].AbsPath = p}

\* C7: a tracked path that no longer exists when a pass runs has, at the end
\* of the pass, exactly one Update in the slice, with WasRemoved set, Error the
\* not-exist failure of the stat and Prev the info stored before, and is no
\* longer tracked; and as long as a path is neither tracked nor there, the
\* worker neither tracks it again nor makes an Update for it.
C7_DeletedReportedOnce ==
  /\ [](QuietPassDone =>
          \A p \in Tracked(infos0) :
            StatErr(p) = "notexist" =>
              /\ p \notin Tracked(infos)
              /\ Cardinality(UpdatesFor(discovered, p)) = 1
              /\ \A i \in UpdatesFor(discovered, p) :
                   /\ discovered[i].WasRemoved /\ ~discovered[i].WasAdded
                   /\ discovered[i].Error = "notexist"
                   /\ discovered[i].Prev = infos0[p]
                   /\ discovered[i].Next = NoInfo)
  /\ [][\A p \in Paths :
          (Working /\ p \notin Tracked(infos) /\ fs[p].kind = "none"
                   /\ fs'[p].kind = "none")
            => (p \notin Tracked(infos') /\ Appended(p) = {})]_vars

\* C7 witness: a pass over a tree whose tracked file has been deleted is
\* through, and the file is reported and dropped.
C7_Witness ==
  /\ QuietPassDone
  /\ "r/s/b" \in Tracked(infos0) /\ fs["r/s/b"].kind = "none"
  /\ fs["r/s"].kind = "dir" /\ locked = {}
  /\ "r/s/b" \notin Tracked(infos)

\* Every tracked path is there and has the very info the tracked set holds.
NothingChanged ==
  \A p \in Tracked(infos0) : StatErr(p) = "nil" /\ fs[p] = infos0[p]

\* C8: a pass over a file system that is what the tracked set last saw makes
\* no Update and sends nothing.
C8_SilentWhenUnchanged ==
  (pc \in {"scan", "sendBatch"} /\ quiet /\ NothingChanged)
    => (discovered = <<>> /\ pc = "scan")

\* C8 witness: such a pass over three tracked paths is through.
C8_Witness ==
  QuietPassDone /\ NothingChanged /\ Tracked(infos0) = Paths /\ nops > 0

\* C9: the worker never sends an empty slice: the initial slice has an Update
\* (the walk recorded at least the root), and a pass sends only when it made
\* one; the consumer gets the zero value only from the closed stream.
C9_NoEmptyBatch ==
  /\ pc = "sendInit" => \A b \in InitialBatches : Len(b) > 0
  /\ pc = "sendBatch" => Len(discovered) > 0
  /\ recvOk = "closed" => (closes = 1 /\ pc = "done")

\* C9 witness: a pass has made Updates and the worker stands in the send.
C9_Witness == pc = "sendBatch" /\ Len(discovered) = 2

\* The file f is there and not tracked, its directory is tracked, nothing
\* fails, and every tracked path but the directory is as the tracked set
\* holds it.
NewFileIn(f) ==
  /\ recurse
  /\ fs[f].kind = "file" /\ f \notin Tracked(infos0)
  /\ Parent[f] \in Tracked(infos0)
  /\ locked = {}
  /\ \A q \in Tracked(infos0) : StatErr(q) = "nil"
  /\ \A q \in Tracked(infos0) \ {Parent[f]} : fs[q] = infos0[q]

\* The slice of a pass is an added Update for f and a change Update for its
\* directory, and nothing else.
AddedAndParent(f) ==
  /\ Len(discovered) = 2
  /\ \E i \in UpdatesFor(discovered, f) :
       /\ discovered[i].WasAdded /\ ~discovered[i].WasRemoved
       /\ discovered[i].Prev = fs[f]
  /\ \E i \in UpdatesFor(discovered, Parent[f]) :
       /\ ~discovered[i].WasAdded /\ ~discovered[i].WasRemoved
       /\ discovered[i].Prev = infos0[Parent[f]]
       /\ discovered[i].Next = fs[Parent[f]]

\* C10 as claimed: a pass that finds a new file in a recursively watched,
\* tracked directory makes an added Update for the file and a change Update
\* for the directory, and no other.
C10_NewFileReported ==
  \A f \in Paths : (QuietPassDone /\ NewFileIn(f)) => AddedAndParent(f)

\* C10 as amended: it does so when the directory's modification time is
\* later than the one stored for it (or its size differs); a file made while
\* the directory keeps its time stamp is not found.
C10_NewFileReportedIfDirChanged ==
  \A f \in Paths :
    (QuietPassDone /\ NewFileIn(f)
       /\ (infos0[Parent[f]].mtime < fs[Parent[f]].mtime
           \/ infos0[Parent[f]].size # fs[Parent[f]].size))
      => (AddedAndParent(f) /\ f \in Tracked(infos)
          /\ infos[Parent[f]] = fs[Parent[f]])

\* C10 witness: the pass after a file was made in the tracked sub-directory
\* is through and has the two Updates.
C10_Witness ==
  /\ QuietPassDone /\ NewFileIn("r/s/b")
  /\ infos0["r/s"].mtime < fs["r/s"].mtime
  /\ Len(discovered) = 2

\* The tracked file f has got a new length, nothing fails, and every other
\* tracked path is as the tracked set holds it.
WrittenTo(f) ==
  /\ f \in Tracked(infos0)
  /\ infos0[f].kind = "file" /\ fs[f].kind = "file"
  /\ fs[f].size # infos0[f].size
  /\ \A q \in Tracked(infos0) : StatErr(q) = "nil"
  /\ \A q \in Tracked(infos0) \ {f} : fs[q] = infos0[q]

\* C11: a pass that finds a tracked file with a new length makes exactly one
\* Update, for that file, with Prev the stored info, Next the info of the
\* stat (so Next.Size is the new length) and neither flag set, and makes no
\* Update for any other path; the slice is not empty, so it is sent.
C11_WriteReported ==
  \A f \in Paths :
    (QuietPassDone /\ WrittenTo(f)) =>
      /\ Len(discovered) = 1
      /\ discovered[1] = NewUpdate(f, infos0[f], fs[f], "nil", FALSE, FALSE)
      /\ discovered[1].Next.size = fs[f].size
      /\ infos[f] = fs[f]

\* C11 witness: the pass after a write to the tracked file in the
\* sub-directory is through.
C11_Witness ==
  /\ QuietPassDone /\ WrittenTo("r/s/b")
  /\ fs["r/s/b"].size = 1 /\ Tracked(infos0) = Paths

\* The in-place-change Updates for p in a slice.
ChangeUpdatesFor(batch, p) ==
  {i \in UpdatesFor(batch, p) : ~batch[i].WasAdded /\ ~batch[i].WasRemoved}

\* C12 as claimed: a pass makes a change Update for a tracked path whose stat
\* succeeds exactly when the modification time of the stat is another one
\* than the stored one, earlier or later, or the size is another one.
C12_ChangedIffDiffers ==
  QuietPassDone =>
    \A p \in Tracked(infos0) :
      StatErr(p) = "nil" =>
        (ChangeUpdatesFor(discovered, p) # {}
           <=> (fs[p].mtime # infos0[p].mtime \/ fs[p].size # infos0[p].size))

\* C13: the tracked set changes in these ways only.  A path leaves it only in
\* the step of a pass that stats it and gets a not-exist error, and that step
\* always drops it; a stat that fails in another way leaves the whole set and
\* its infos as they were; a path enters it only when the initial walk or the
\* discovery walk of a tracked directory above it, found changed, meets it on
\* disk; nothing but Watch and the pass touches the set.
C13_TrackedSetChanges ==
  [][/\ \A p \in Paths :
          /\ (p \in Tracked(infos) /\ p \notin Tracked(infos'))
               => (pc = "scan" /\ p \in todo /\ StatErr(p) = "notexist")
          /\ (ScanPath(p) /\ StatErr(p) = "notexist")
               => p \notin Tracked(infos')
          /\ (ScanPath(p) /\ StatErr(p) = "perm") => infos' = infos
          /\ (p \notin Tracked(infos) /\ p \in Tracked(infos'))
               => /\ fs[p].kind # "none" /\ infos'[p] = fs[p]
                  /\ \/ pc = "init" /\ pc' = "sendInit"
                     \/ /\ pc = "scan"
                        /\ \E d \in todo \cap Tracked(infos) :
                             /\ d # p /\ Within(p, d)
                             /\ StatErr(d) = "nil" /\ IsDir(fs[d])
                             /\ infos[d] # fs[d] /\ infos'[d] = fs[d]
     /\ infos' # infos => pc \in {"init", "scan"}]_vars

\* C13 witness: a pass over a tree whose tracked sub-directory was removed
\* with the file in it is through; both have left the tracked set.
C13_Witness ==
  /\ QuietPassDone
  /\ {"r/s", "r/s/b"} \subseteq Tracked(infos0)
  /\ Tracked(infos) = {"r"}

\* C14 as claimed: a tracked symbolic link that is as the initial walk
\* recorded it (the stored info is the link's own, and the link's own info
\* has not changed) gets no Update in a pass and stays tracked with that
\* info, whether its target is there or not.
C14_UnchangedLinkSilent ==
  QuietPassDone =>
    \A p \in Tracked(infos0) :
      (fs[p].kind \in {"link", "dangling"} /\ LstatErr(p) = "nil"
         /\ infos0[p] = LstatInfo(p))
        => (UpdatesFor(discovered, p) = {} /\ infos[p] = infos0[p])

C17_PassStatsSnapshot ==
  [][\A p \in Paths :
       (ScanPath(p) /\ recurse /\ quiet) => p \in Tracked(infos0)]_vars

DistinctPaths(batch) ==
  \A i, j \in DOMAIN batch : i # j => batch[i].AbsPath # batch[j].AbsPath

\* C19 as claimed: no batch the worker sends, the initial one or that of a
\* pass, has two Updates for one path, whatever happens to the file system
\* during the pass.
C19_NoDuplicatePaths ==
  /\ pc = "sendInit" => \A b \in InitialBatches : DistinctPaths(b)
  /\ pc = "sendBatch" => DistinctPaths(discovered)

\* C19 as amended: the initial batch has no two Updates for one path, and
\* neither has the slice of a pass during which nothing touched the file
\* system.  (A path that a pass has reported removed and that is made again
\* before the pass walks its directory is reported added in the same slice.)
C19_NoDuplicatePathsInQuietPass ==
  /\ pc = "sendInit" => \A b \in InitialBatches : DistinctPaths(b)
  /\ (pc \in {"scan", "sendBatch"} /\ quiet) => DistinctPaths(discovered)

\* C19 witness: a pass during which nothing touched the file system sends
\* three Updates, one of them for a path it has added.
C19_Witness ==
  /\ pc = "sendBatch" /\ quiet
  /\ Len(discovered) = 3
  /\ \E i \in DOMAIN discovered : discovered[i].WasAdded

\* C20: before the consumer has received anything it holds the empty set,
\* and every batch the worker hands over, the initial one or that of a pass,
\* leaves the consumer with exactly the worker's tracked set of that moment.
C20_BatchesMirrorTrackedSet ==
  /\ [](recvOk = "none" => mirror = {})
  /\ [][Delivery => (mirror' = Tracked(infos) /\ infos' = infos)]_vars

\* C20 witness: a pass sends a slice in which a path is reported removed
\* and, further on, added; the path is tracked.
C20_Witness ==
  /\ pc = "sendBatch"
  /\ \E i, j \in DOMAIN discovered :
       /\ i < j /\ discovered[i].AbsPath = discovered[j].AbsPath
       /\ discovered[i].WasRemoved /\ discovered[i].Error = "notexist"
       /\ discovered[j].WasAdded
       /\ discovered[j].AbsPath \in Tracked(infos)

====
